---- MODULE Spec2Model ----
(***************************************************************************)
(* Model of the assembler interpreter of src/main.cpp: class Interpreter   *)
(* (initVariables, isConst, isRegister, parseProgram, execute,             *)
(* createMessage) as run by its constructor.                               *)
(*                                                                         *)
(* A character is a one-character string, a std::string is a sequence of   *)
(* characters, the program text is the sequence of its lines (what         *)
(* std::getline hands to the loop of parseProgram).                        *)
(***************************************************************************)
EXTENDS Integers, Sequences, FiniteSets, TLC

VARIABLES program, pc, lineNo, subroutine, subroutines, instructions,
          regs, cmpResult, call_stack, instr, messagePattern, output,
          exception

vars == <<program, pc, lineNo, subroutine, subroutines, instructions,
          regs, cmpResult, call_stack, instr, messagePattern, output,
          exception>>

(***************************************************************************)
(* Characters.                                                             *)
(***************************************************************************)
Digits == {"0", "1", "2", "3", "4", "5", "6", "7", "8", "9"}

NonZeroDigits == Digits \ {"0"}

Lower == {"a", "b", "c", "d", "e", "f", "g", "h", "i", "j", "k", "l", "m",
          "n", "o", "p", "q", "r", "s", "t", "u", "v", "w", "x", "y", "z"}

\* the characters of " \t\n\r\f\v" that can occur inside one line
Whitespace == {" ", "\t"}

DigitVal(c) ==
    CASE c = "0" -> 0 [] c = "1" -> 1 [] c = "2" -> 2 [] c = "3" -> 3
      [] c = "4" -> 4 [] c = "5" -> 5 [] c = "6" -> 6 [] c = "7" -> 7
      [] c = "8" -> 8 [] c = "9" -> 9

DigitChar(n) ==
    CASE n = 0 -> "0" [] n = 1 -> "1" [] n = 2 -> "2" [] n = 3 -> "3"
      [] n = 4 -> "4" [] n = 5 -> "5" [] n = 6 -> "6" [] n = 7 -> "7"
      [] n = 8 -> "8" [] n = 9 -> "9"

(***************************************************************************)
(* The int type of the registers and of cmpResult: 32 bits, two's          *)
(* complement.  The result of an operation is a record: ub tells that the  *)
(* exact result does not fit (signed overflow, undefined behaviour), val   *)
(* is the exact result, or the wrapped-around one when ub holds.           *)
(***************************************************************************)
INT_MAX == 2147483647

INT_MIN == -2147483647 - 1

AddOverflows(a, b) ==
    \/ b > 0 /\ a > INT_MAX - b
    \/ b < 0 /\ a < INT_MIN - b

\* a + b modulo 2^32
WrapAdd(a, b) ==
    IF ~AddOverflows(a, b) THEN a + b
    ELSE IF b > 0 THEN (a + INT_MIN) + (b + INT_MIN)
    ELSE (a - INT_MIN) + (b - INT_MIN)

IntAdd(a, b) == [ub |-> AddOverflows(a, b), val |-> WrapAdd(a, b)]

SubOverflows(a, b) ==
    \/ b < 0 /\ a > INT_MAX + b
    \/ b > 0 /\ a < INT_MIN + b

\* a - b modulo 2^32
WrapSub(a, b) ==
    IF ~SubOverflows(a, b) THEN a - b
    ELSE IF b < 0 THEN (a + INT_MIN) - (b - INT_MIN)
    ELSE (a - INT_MIN) - (b + INT_MIN)

IntSub(a, b) == [ub |-> SubOverflows(a, b), val |-> WrapSub(a, b)]

\* the i-th byte of the two's complement representation of a
Byte(a, i) == (a \div (256 ^ i)) % 256

\* a * b modulo 2^32, byte by byte
WrapMul(a, b) ==
    LET c0 == Byte(a, 0) * Byte(b, 0)
        c1 == Byte(a, 0) * Byte(b, 1) + Byte(a, 1) * Byte(b, 0)
              + (c0 \div 256)
        c2 == Byte(a, 0) * Byte(b, 2) + Byte(a, 1) * Byte(b, 1)
              + Byte(a, 2) * Byte(b, 0) + (c1 \div 256)
        c3 == Byte(a, 0) * Byte(b, 3) + Byte(a, 1) * Byte(b, 2)
              + Byte(a, 2) * Byte(b, 1) + Byte(a, 3) * Byte(b, 0)
              + (c2 \div 256)
        top == c3 % 256
    IN  (IF top >= 128 THEN top - 256 ELSE top) * (256 ^ 3)
        + (c2 % 256) * (256 ^ 2) + (c1 % 256) * 256 + (c0 % 256)

\* a / b truncated toward zero, for b # 0 and not INT_MIN / -1
TruncDiv(a, b) ==
    LET pos(x, y) == IF x >= 0 THEN x \div y ELSE (x + y - 1) \div y
    IN  IF b > 0 THEN pos(a, b)
        ELSE IF b = INT_MIN THEN (IF a = INT_MIN THEN 1 ELSE 0)
        ELSE -pos(a, -b)

MulOverflows(a, b) ==
    IF a = 0 \/ b = 0 THEN FALSE
    ELSE IF a = -1 THEN b = INT_MIN
    ELSE IF b = -1 THEN a = INT_MIN
    ELSE TruncDiv(WrapMul(a, b), b) # a

\* a wrong product: the operands are added
IntMulAsSum(a, b) == IntAdd(a, b)

IntMul(a, b) == [ub |-> MulOverflows(a, b), val |-> WrapMul(a, b)]

\* INT_MIN / -1 does not fit
IntDiv(a, b) ==
    IF a = INT_MIN /\ b = -1 THEN [ub |-> TRUE, val |-> INT_MIN]
    ELSE [ub |-> FALSE, val |-> TruncDiv(a, b)]

(***************************************************************************)
(* std::string helpers.                                                    *)
(***************************************************************************)
\* F applied to the value of e: the argument is evaluated once, as a C++
\* function receives a value and not an expression
ByValue(F(_), e) == CHOOSE y \in {F(x) : x \in {e}} : TRUE

\* str.substr(pos) with pos <= size, pos counted from 0
SubstrFrom(str, pos) == SubSeq(str, pos + 1, Len(str))

\* str.substr(pos, n), n clamped to the end of the string
Substr(str, pos, n) ==
    SubSeq(str, pos + 1, IF pos + n > Len(str) THEN Len(str) ELSE pos + n)

\* str.find(c): the 0-based index of the first c, or -1 (npos)
RECURSIVE FindFrom(_, _, _)
FindFrom(str, c, i) ==
    IF i > Len(str) THEN -1
    ELSE IF str[i] = c THEN i - 1
    ELSE FindFrom(str, c, i + 1)

Find(str, c) == FindFrom(str, c, 1)

\* the digits of a literal, accumulated as a negative number so that
\* INT_MIN is reached; "range" when the number does not fit an int
RECURSIVE NegativeValue(_, _)
NegativeValue(digits, acc) ==
    IF digits = <<>> THEN [range |-> FALSE, val |-> acc]
    ELSE LET d == DigitVal(Head(digits))
         IN  IF acc < (INT_MIN + d + 9) \div 10
             THEN [range |-> TRUE, val |-> 0]
             ELSE NegativeValue(Tail(digits), 10 * acc - d)

\* std::stoi on a string isConst accepted: the value, or the fact that
\* std::out_of_range is thrown
stoi(str) ==
    IF Head(str) = "-" THEN NegativeValue(Tail(str), 0)
    ELSE LET n == NegativeValue(str, 0)
         IN  IF n.range \/ n.val = INT_MIN THEN [range |-> TRUE, val |-> 0]
             ELSE [range |-> FALSE, val |-> -n.val]

RECURSIVE NatToString(_)
NatToString(n) ==
    IF n < 10 THEN <<DigitChar(n)>>
    ELSE Append(NatToString(n \div 10), DigitChar(n % 10))

\* std::to_string(int)
to_string(n) ==
    IF n = INT_MIN
    THEN <<"-", "2", "1", "4", "7", "4", "8", "3", "6", "4", "8">>
    ELSE IF n < 0 THEN <<"-">> \o NatToString(-n)
    ELSE NatToString(n)

(***************************************************************************)
(* Interpreter::isConst and Interpreter::isRegister.                       *)
(***************************************************************************)
isConst(str) ==
    IF str = <<>> THEN FALSE
    ELSE IF str = <<"0">> \/ str = <<"-", "0">> THEN TRUE
    ELSE IF str = <<"-">> THEN FALSE
    ELSE IF str[1] # "-" /\ str[1] \notin NonZeroDigits THEN FALSE
    ELSE \A i \in 2..Len(str) : str[i] \in Digits

isRegister(str) == \A i \in 1..Len(str) : str[i] \in Lower

(***************************************************************************)
(* Interpreter::parseProgram: the work done on one line.                   *)
(***************************************************************************)
\* the first index >= i (from 1) of a non-whitespace character, or Len + 1
RECURSIVE SkipWhitespace(_, _)
SkipWhitespace(str, i) ==
    IF i > Len(str) THEN i
    ELSE IF str[i] \in Whitespace THEN SkipWhitespace(str, i + 1)
    ELSE i

\* the first index >= i (from 1) of a whitespace character, or Len + 1
RECURSIVE TokenEnd(_, _)
TokenEnd(str, i) ==
    IF i > Len(str) THEN i
    ELSE IF str[i] \in Whitespace THEN i
    ELSE TokenEnd(str, i + 1)

\* the last index <= i (from 1) of a non-whitespace character, or 0
RECURSIVE LastNonWhitespace(_, _)
LastNonWhitespace(str, i) ==
    IF i = 0 THEN 0
    ELSE IF str[i] \in Whitespace THEN LastNonWhitespace(str, i - 1)
    ELSE i

rtrim(str) ==
    ByValue(LAMBDA s : SubSeq(s, 1, LastNonWhitespace(s, Len(s))), str)

ltrim(str) ==
    ByValue(LAMBDA s : SubSeq(s, SkipWhitespace(s, 1), Len(s)), str)

trim(str) == rtrim(ltrim(str))

\* remove everything after the first ';'
CropComment(str) ==
    ByValue(LAMBDA s : LET pos == Find(s, ";")
                       IN  IF pos = -1 THEN s ELSE Substr(s, 0, pos),
            str)

\* ss >> type on a trimmed, non-empty line
FirstToken(line) ==
    ByValue(LAMBDA s : LET b == SkipWhitespace(s, 1)
                       IN  SubSeq(s, b, TokenEnd(s, b) - 1),
            line)

\* ss.tellg() after ss >> type: the offset after the token, or -1 when the
\* extraction reached the end of the line (eofbit makes tellg fail)
TellAfterFirstToken(line) ==
    ByValue(LAMBDA s : LET e == TokenEnd(s, SkipWhitespace(s, 1))
                       IN  IF e > Len(s) THEN -1 ELSE e - 1,
            line)

instructionTypeMap(type) ==
    ByValue(LAMBDA t :
        CASE t = <<"m", "o", "v">> -> "MOV"
          [] t = <<"i", "n", "c">> -> "INC"
          [] t = <<"d", "e", "c">> -> "DEC"
          [] t = <<"a", "d", "d">> -> "ADD"
          [] t = <<"s", "u", "b">> -> "SUB"
          [] t = <<"m", "u", "l">> -> "MUL"
          [] t = <<"d", "i", "v">> -> "DIV"
          [] t = <<"j", "m", "p">> -> "JMP"
          [] t = <<"c", "m", "p">> -> "CMP"
          [] t = <<"j", "n", "e">> -> "JNE"
          [] t = <<"j", "e">> -> "JE"
          [] t = <<"j", "g", "e">> -> "JGE"
          [] t = <<"j", "g">> -> "JG"
          [] t = <<"j", "l", "e">> -> "JLE"
          [] t = <<"j", "l">> -> "JL"
          [] t = <<"c", "a", "l", "l">> -> "CALL"
          [] t = <<"m", "s", "g">> -> "MSG"
          [] t = <<"r", "e", "t">> -> "RET"
          [] t = <<"e", "n", "d">> -> "END"
          [] OTHER -> "NONE",
            type)

\* a wrong scan: every comma ends an operand, inside quotes too
RECURSIVE MsgScanIgnoringQuotes(_, _, _, _)
MsgScanIgnoringQuotes(chars, args, arg, insideQuote) ==
    ByValue(LAMBDA s :
      IF s.chars = <<>>
      THEN IF Len(s.arg) > 0 THEN Append(s.args, s.arg) ELSE s.args
      ELSE LET c == Head(s.chars)
               rest == Tail(s.chars)
           IN  IF c = " " /\ Len(s.arg) = 0
               THEN MsgScanIgnoringQuotes(rest, s.args, s.arg, FALSE)
               ELSE IF c = ","
               THEN MsgScanIgnoringQuotes(rest, Append(s.args, s.arg), <<>>,
                                          FALSE)
               ELSE MsgScanIgnoringQuotes(rest, s.args, Append(s.arg, c),
                                          FALSE),
      [chars |-> chars, args |-> args, arg |-> arg])

\* the scan of the operands of msg: a comma ends an operand only outside
\* quotes, spaces before the first character of an operand are skipped
RECURSIVE MsgScan(_, _, _, _)
MsgScan(chars, args, arg, insideQuote) ==
    ByValue(LAMBDA s :
      IF s.chars = <<>>
      THEN IF Len(s.arg) > 0 THEN Append(s.args, s.arg) ELSE s.args
      ELSE LET c == Head(s.chars)
               rest == Tail(s.chars)
           IN  IF c = " " /\ Len(s.arg) = 0
               THEN MsgScan(rest, s.args, s.arg, s.insideQuote)
               ELSE IF c = "'"
               THEN MsgScan(rest, s.args, Append(s.arg, c), ~s.insideQuote)
               ELSE IF c = "," /\ ~s.insideQuote
               THEN MsgScan(rest, Append(s.args, s.arg), <<>>, s.insideQuote)
               ELSE MsgScan(rest, s.args, Append(s.arg, c), s.insideQuote),
      [chars |-> chars, args |-> args, arg |-> arg,
       insideQuote |-> insideQuote])

\* while (ss >> arg): whitespace-delimited operands, one trailing ','
\* removed from each
RECURSIVE PlainArgs(_, _)
PlainArgs(line, i) ==
    ByValue(LAMBDA s :
              ByValue(LAMBDA b :
                IF b > Len(s) THEN <<>>
                ELSE ByValue(LAMBDA e :
                       ByValue(LAMBDA arg :
                                 <<IF arg[Len(arg)] = ","
                                   THEN SubSeq(arg, 1, Len(arg) - 1)
                                   ELSE arg>> \o PlainArgs(s, e),
                               SubSeq(s, b, e - 1)),
                       TokenEnd(s, b)),
                SkipWhitespace(s, i)),
            line)

(***************************************************************************)
(* The register store (std::unordered_map<std::string, int>): operator[]   *)
(* inserts a missing key with the value 0.                                 *)
(***************************************************************************)
RegVal(rs, r) == IF r \in DOMAIN rs THEN rs[r] ELSE 0

Touch(rs, r) ==
    [k \in DOMAIN rs \cup {r} |-> IF k \in DOMAIN rs THEN rs[k] ELSE 0]

SetReg(rs, r, v) ==
    [k \in DOMAIN rs \cup {r} |-> IF k = r THEN v ELSE rs[k]]

\* the lambda resolveValue of execute: the value of an operand, the
\* register store after the access, or the exception thrown
resolveValue(rs, arg) ==
    IF isRegister(arg)
    THEN [exc |-> "", val |-> RegVal(rs, arg), regs |-> Touch(rs, arg)]
    ELSE IF isConst(arg)
    THEN IF stoi(arg).range
         THEN [exc |-> "std::out_of_range", val |-> 0, regs |-> rs]
         ELSE [exc |-> "", val |-> stoi(arg).val, regs |-> rs]
    ELSE [exc |-> "INVALID_ARG", val |-> 0, regs |-> rs]

(***************************************************************************)
(* Interpreter::createMessage.                                             *)
(***************************************************************************)
\* a.substr(1, a.length() - 2); a.length() - 2 wraps around for length 1
QuotedText(a) ==
    IF Len(a) < 2 THEN SubstrFrom(a, 1) ELSE Substr(a, 1, Len(a) - 2)

\* the loop over the pattern: the output built so far, the register store
\* and the exception that ended the loop, if any
RECURSIVE FormatPattern(_, _, _)
FormatPattern(pattern, out, rs) ==
    IF pattern = <<>> THEN [exc |-> "", output |-> out, regs |-> rs]
    ELSE LET a == Head(pattern)
         IN  IF a = <<>>
             THEN [exc |-> "std::out_of_range", output |-> out, regs |-> rs]
             ELSE IF a[1] = "'"
             THEN FormatPattern(Tail(pattern), out \o QuotedText(a), rs)
             ELSE IF isRegister(a)
             THEN FormatPattern(Tail(pattern),
                                out \o to_string(RegVal(rs, a)), Touch(rs, a))
             ELSE [exc |-> "INVALID_MSG_ARGUMENT", output |-> out, regs |-> rs]

\* a wrong formatter: no default output for the empty pattern
createMessageWithoutDefault(pattern, rs) == FormatPattern(pattern, <<>>, rs)

\* a wrong formatter: quoted text keeps its opening quote
createMessageFromStoredValues(pattern, rs) ==
    IF pattern = <<>>
    THEN [exc |-> "", output |-> <<"-", "1">>, regs |-> rs]
    ELSE FormatPattern([i \in 1..Len(pattern) |->
                           IF pattern[i] # <<>> /\ pattern[i][1] = "'"
                           THEN <<"'">> \o pattern[i] ELSE pattern[i]],
                       <<>>, rs)

createMessage(pattern, rs) ==
    IF pattern = <<>>
    THEN [exc |-> "", output |-> <<"-", "1">>, regs |-> rs]
    ELSE FormatPattern(pattern, <<>>, rs)

(***************************************************************************)
(* The programs the interpreter is run on (the argument of                 *)
(* assembler_interpreter), as families of source texts.                    *)
(***************************************************************************)
\* the mnemonic of an instruction type
Mnemonic(type) ==
    CASE type = "MOV" -> <<"m", "o", "v">>
      [] type = "INC" -> <<"i", "n", "c">>
      [] type = "DEC" -> <<"d", "e", "c">>
      [] type = "ADD" -> <<"a", "d", "d">>
      [] type = "SUB" -> <<"s", "u", "b">>
      [] type = "MUL" -> <<"m", "u", "l">>
      [] type = "DIV" -> <<"d", "i", "v">>
      [] type = "JMP" -> <<"j", "m", "p">>
      [] type = "CMP" -> <<"c", "m", "p">>
      [] type = "JNE" -> <<"j", "n", "e">>
      [] type = "JE" -> <<"j", "e">>
      [] type = "JGE" -> <<"j", "g", "e">>
      [] type = "JG" -> <<"j", "g">>
      [] type = "JLE" -> <<"j", "l", "e">>
      [] type = "JL" -> <<"j", "l">>
      [] type = "CALL" -> <<"c", "a", "l", "l">>
      [] type = "MSG" -> <<"m", "s", "g">>
      [] type = "RET" -> <<"r", "e", "t">>
      [] type = "END" -> <<"e", "n", "d">>

JumpTypes == {"JMP", "JNE", "JE", "JGE", "JG", "JLE", "JL"}

\* source lines: "ret", "inc a", "mov a, 5", "f:"
Line0(type) == Mnemonic(type)

Line1(type, x) == Mnemonic(type) \o <<" ">> \o x

Line2(type, x, y) == Mnemonic(type) \o <<" ">> \o x \o <<",", " ">> \o y

LabelLine(name) == name \o <<":">>

\* a line whose operands are written one by one, each followed by a comma
\* except a non-empty last one
RECURSIVE OperandText(_)
OperandText(ops) ==
    IF ops = <<>> THEN <<>>
    ELSE <<" ">> \o Head(ops)
         \o (IF Len(ops) > 1 \/ Head(ops) = <<>> THEN <<",">> ELSE <<>>)
         \o OperandText(Tail(ops))

LineN(type, ops) == Mnemonic(type) \o OperandText(ops)

\* all sequences of length 1..n over a set
RECURSIVE SeqsUpTo(_, _)
SeqsUpTo(S, n) ==
    IF n = 0 THEN {}
    ELSE LET shorter == SeqsUpTo(S, n - 1)
         IN  {<<x>> : x \in S} \cup shorter
             \cup {Append(q, x) : q \in shorter, x \in S}

\* the largest absolute value of the small operands
MaxVal == 2

Values == (-MaxVal .. MaxVal) \cup {INT_MIN, INT_MAX}

\* the longest main program of the call family, in lines
MaxMain == 2

\* calls, jumps and returns: a short main program in front of two
\* subroutines
MainLines ==
    {Line1("CALL", <<"f">>), Line1("CALL", <<"g">>), Line1("CALL", <<"h">>),
     Line1("JMP", <<"f">>), Line1("JMP", <<"g">>), Line0("RET"),
     Line0("END"), Line1("INC", <<"a">>), Line1("MSG", <<"a">>)}

SubroutineTexts ==
    { \* f calls g and returns
      << LabelLine(<<"f">>), Line1("INC", <<"a">>), Line1("CALL", <<"g">>),
         Line1("INC", <<"a">>), Line0("RET"),
         LabelLine(<<"g">>), Line1("INC", <<"b">>), Line0("RET") >>,
      \* g ends the program below f
      << LabelLine(<<"f">>), Line1("INC", <<"a">>), Line1("CALL", <<"g">>),
         Line1("INC", <<"a">>), Line0("RET"),
         LabelLine(<<"g">>), Line1("MSG", <<"a">>), Line0("END"),
         Line1("INC", <<"a">>) >>,
      \* f jumps to g, g calls a missing subroutine when entered twice
      << LabelLine(<<"f">>), Line1("INC", <<"a">>), Line1("JMP", <<"g">>),
         Line1("INC", <<"a">>),
         LabelLine(<<"g">>), Line1("INC", <<"b">>),
         Line2("CMP", <<"b">>, <<"2">>), Line1("JE", <<"h">>), Line0("RET"),
         Line1("MSG", <<"b">>) >>,
      \* f calls itself until a is 3
      << LabelLine(<<"f">>), Line1("INC", <<"a">>),
         Line2("CMP", <<"a">>, <<"3">>), Line1("JE", <<"g">>),
         Line1("CALL", <<"f">>), Line1("INC", <<"b">>), Line0("RET"),
         LabelLine(<<"g">>), Line0("RET") >> }

CallPrograms ==
    {main \o subs : main \in SeqsUpTo(MainLines, MaxMain),
                    subs \in SubroutineTexts}

\* a comparison and a jump: mov a, x; cmp a, y (or cmp x, y; or cmp x, b);
\* a jump to f, which exists, or to g, which does not
CompareLines(x, y) ==
    { <<Line2("MOV", <<"a">>, to_string(x)),
        Line2("CMP", <<"a">>, to_string(y))>>,
      <<Line2("CMP", to_string(x), to_string(y))>>,
      <<Line2("MOV", <<"b">>, to_string(y)),
        Line2("CMP", to_string(x), <<"b">>)>> }

ComparePrograms ==
    {cmp \o <<Line1(j, l), Line1("MSG", <<"'", "n", "'">>), Line0("END"),
              LabelLine(<<"f">>), Line1("MSG", <<"'", "y", "'">>),
              Line0("END")>> :
        cmp \in UNION {CompareLines(x, y) : x \in Values, y \in Values},
        j \in JumpTypes, l \in {<<"f">>, <<"g">>}}

\* arithmetic: mov a, x; then one instruction on a with y; then the value
\* of a is printed
ArithmeticPrograms ==
    {<<Line2("MOV", <<"a">>, to_string(x)), Line2(op, <<"a">>, to_string(y)),
       Line1("MSG", <<"a">>), Line0("END")>> :
        x \in Values, y \in Values,
        op \in {"MOV", "ADD", "SUB", "MUL", "DIV"}}
    \cup
    {<<Line2("MOV", <<"a">>, to_string(x)), Line1(op, <<"a">>),
       Line1("MSG", <<"a">>), Line0("END")>> :
        x \in Values, op \in {"INC", "DEC"}}

\* operands, well-formed or not
OperandChars == {"a", "A", "1", "0", "-"}

\* the longest operand of the operand family, in characters
MaxOperandLen == 2

Operands == {<<>>} \cup SeqsUpTo(OperandChars, MaxOperandLen)

FirstOperands == {<<"a">>, <<>>, <<"A">>, <<"a", "1">>, <<"1">>}

\* mov a, 1; then an instruction with zero to three operands
OperandPrograms ==
    {<<Line2("MOV", <<"a">>, <<"1">>), LineN(op, ops),
       Line1("MSG", <<"a">>), Line0("END")>> :
        op \in {"MOV", "ADD", "SUB", "MUL", "DIV", "INC", "DEC"},
        ops \in {<<>>} \cup {<<x>> : x \in FirstOperands}
                \cup {<<x, y>> : x \in FirstOperands, y \in Operands}
                \cup {<<x, y, <<"1">>>> : x \in {<<"a">>, <<"A">>},
                                          y \in {<<"1">>, <<"A">>}}}

\* messages: the pattern is stored by msg and formatted by end
Patterns ==
    { <<"a">>,
      <<"a", ",", " ", "'", "^", "'", ",", " ", "b">>,
      <<"'", "a", ",", " ", "b", "'", ",", "b">>,
      <<"'", "x", "'", ",", " ", "a", ",", " ", "'", " ", "=", "'">>,
      <<"a", " ", ",", "b">>,
      <<"a", ",", ",", "b">>,
      <<"'", "'">>,
      <<"'">>,
      <<"A">>,
      <<"'", "x", "'", ",", "1">> }

MessagePrograms ==
    {<<Line2("MOV", <<"a">>, to_string(x)), Line1("MSG", p),
       Line2("MOV", <<"b">>, <<"7">>)>> \o tail :
        x \in Values, p \in Patterns,
        tail \in { <<Line0("END")>>,
                   <<>>,
                   <<Line1("DEC", <<"a">>), Line0("END")>>,
                   <<Line1("MSG", <<"b">>), Line1("INC", <<"b">>),
                     Line0("END")>>,
                   <<Line1("CALL", <<"f">>), Line1("INC", <<"b">>),
                     LabelLine(<<"f">>), Line1("INC", <<"a">>),
                     Line0("END")>> }}
    \cup
    {<<Line2("MOV", <<"a">>, <<"5">>), Line0("END")>>,
     <<Line0("END")>>, <<>>,
     <<Line2("MOV", <<"a">>, <<"5">>), Line0("MSG"), Line0("END")>>,
     <<Line2("MOV", <<"a">>, <<"2">>), Line2("MOV", <<"b">>, <<"1", "0">>),
       Line1("MSG", <<"'", "o", "l", "d", "'", ",", " ", "c">>),
       Line2("MOV", <<"c">>, <<"1">>),
       Line1("MSG", <<"a", ",", " ", "'", "^", "'", ",", " ", "b", ",", " ",
                      "'", " ", "=", " ", "'", ",", " ", "c">>),
       Line2("MOV", <<"c">>, <<"1", "0", "2", "4">>), Line0("END")>>}

\* operand texts for the two grammars: the documented examples and every
\* short text over a sign, two digits and a letter
GrammarChars == {"-", "0", "1", "a"}

\* the longest text of the grammar family, in characters
MaxGrammarLen == 3

GrammarStrings ==
    SeqsUpTo(GrammarChars, MaxGrammarLen)
    \cup { <<"1", "2", "3">>, <<"-", "7">>, <<"0", "0", "7">>,
           <<"r", "e", "g">>, <<"A">>, <<"r", "1">> }

\* cmp s, s: both operands go through resolveValue
GrammarPrograms ==
    {<<Line2("CMP", str, str), Line0("END")>> : str \in GrammarStrings}

\* the first example program of main, for a base A and an exponent B
PowerProgram(A, B) ==
    << <<>>,
       <<"m", "o", "v", " ", " ", " ", "a", ",", " ">> \o to_string(A) \o
         <<" ", " ", " ", " ", " ", " ", " ", " ", " ", " ", " ", " ", ";",
         " ", "v", "a", "l", "u", "e", "1">>,
       <<"m", "o", "v", " ", " ", " ", "b", ",", " ">> \o to_string(B) \o
         <<" ", " ", " ", " ", " ", " ", " ", " ", " ", " ", " ", ";", " ",
         "v", "a", "l", "u", "e", "2">>,
       <<"m", "o", "v", " ", " ", " ", "c", ",", " ", "a", " ", " ", " ", " ",
         " ", " ", " ", " ", " ", " ", " ", " ", ";", " ", "t", "e", "m", "p",
         "1">>,
       <<"m", "o", "v", " ", " ", " ", "d", ",", " ", "b", " ", " ", " ", " ",
         " ", " ", " ", " ", " ", " ", " ", " ", ";", " ", "t", "e", "m", "p",
         "2">>,
       <<"c", "a", "l", "l", " ", " ", "p", "r", "o", "c", "_", "f", "u", "n",
         "c">>,
       <<"c", "a", "l", "l", " ", " ", "p", "r", "i", "n", "t">>,
       <<"e", "n", "d">>,
       <<>>,
       <<"p", "r", "o", "c", "_", "f", "u", "n", "c", ":">>,
       <<" ", " ", " ", " ", "c", "m", "p", " ", " ", " ", "d", ",", " ",
         "1">>,
       <<" ", " ", " ", " ", "j", "e", " ", " ", " ", " ", "c", "o", "n", "t",
         "i", "n", "u", "e">>,
       <<" ", " ", " ", " ", "m", "u", "l", " ", " ", " ", "c", ",", " ",
         "a">>,
       <<" ", " ", " ", " ", "d", "e", "c", " ", " ", " ", "d">>,
       <<" ", " ", " ", " ", "c", "a", "l", "l", " ", " ", "p", "r", "o", "c",
         "_", "f", "u", "n", "c">>,
       <<>>,
       <<"c", "o", "n", "t", "i", "n", "u", "e", ":">>,
       <<" ", " ", " ", " ", "r", "e", "t">>,
       <<>>,
       <<"p", "r", "i", "n", "t", ":">>,
       <<" ", " ", " ", " ", "m", "s", "g", " ", "a", ",", " ", "'", "^", "'",
         ",", " ", "b", ",", " ", "'", " ", "=", " ", "'", ",", " ", "c">>,
       <<" ", " ", " ", " ", "r", "e", "t">> >>

\* the second example program of main, for the inputs a and b
GcdProgram(a, b) ==
    << <<>>,
       <<"m", "o", "v", " ", " ", " ", "a", ",", " ">> \o to_string(a) \o
         <<" ", " ", " ", " ", " ", " ", " ", " ", " ", ";", " ", "v", "a",
         "l", "u", "e", "1">>,
       <<"m", "o", "v", " ", " ", " ", "b", ",", " ">> \o to_string(b) \o
         <<" ", " ", " ", " ", " ", " ", " ", " ", ";", " ", "v", "a", "l",
         "u", "e", "2">>,
       <<"c", "a", "l", "l", " ", " ", "i", "n", "i", "t">>,
       <<"c", "a", "l", "l", " ", " ", "p", "r", "o", "c", "_", "g", "c",
         "d">>,
       <<"c", "a", "l", "l", " ", " ", "p", "r", "i", "n", "t">>,
       <<"e", "n", "d">>,
       <<>>,
       <<"p", "r", "o", "c", "_", "g", "c", "d", ":">>,
       <<" ", " ", " ", " ", "c", "m", "p", " ", " ", " ", "c", ",", " ",
         "d">>,
       <<" ", " ", " ", " ", "j", "n", "e", " ", " ", " ", "l", "o", "o",
         "p">>,
       <<" ", " ", " ", " ", "r", "e", "t">>,
       <<>>,
       <<"l", "o", "o", "p", ":">>,
       <<" ", " ", " ", " ", "c", "m", "p", " ", " ", " ", "c", ",", " ",
         "d">>,
       <<" ", " ", " ", " ", "j", "g", " ", " ", " ", " ", "a", "_", "b", "i",
         "g", "g", "e", "r">>,
       <<" ", " ", " ", " ", "j", "m", "p", " ", " ", " ", "b", "_", "b", "i",
         "g", "g", "e", "r">>,
       <<>>,
       <<"a", "_", "b", "i", "g", "g", "e", "r", ":">>,
       <<" ", " ", " ", " ", "s", "u", "b", " ", " ", " ", "c", ",", " ",
         "d">>,
       <<" ", " ", " ", " ", "j", "m", "p", " ", " ", " ", "p", "r", "o", "c",
         "_", "g", "c", "d">>,
       <<>>,
       <<"b", "_", "b", "i", "g", "g", "e", "r", ":">>,
       <<" ", " ", " ", " ", "s", "u", "b", " ", " ", " ", "d", ",", " ",
         "c">>,
       <<" ", " ", " ", " ", "j", "m", "p", " ", " ", " ", "p", "r", "o", "c",
         "_", "g", "c", "d">>,
       <<>>,
       <<"i", "n", "i", "t", ":">>,
       <<" ", " ", " ", " ", "c", "m", "p", " ", " ", " ", "a", ",", " ",
         "0">>,
       <<" ", " ", " ", " ", "j", "l", " ", " ", " ", " ", "a", "_", "a", "b",
         "s">>,
       <<" ", " ", " ", " ", "c", "m", "p", " ", " ", " ", "b", ",", " ",
         "0">>,
       <<" ", " ", " ", " ", "j", "l", " ", " ", " ", " ", "b", "_", "a", "b",
         "s">>,
       <<" ", " ", " ", " ", "m", "o", "v", " ", " ", " ", "c", ",", " ", "a",
         " ", " ", " ", " ", " ", " ", " ", " ", " ", " ", " ", " ", ";", " ",
         "t", "e", "m", "p", "1">>,
       <<" ", " ", " ", " ", "m", "o", "v", " ", " ", " ", "d", ",", " ", "b",
         " ", " ", " ", " ", " ", " ", " ", " ", " ", " ", " ", " ", ";", " ",
         "t", "e", "m", "p", "2">>,
       <<" ", " ", " ", " ", "r", "e", "t">>,
       <<>>,
       <<"a", "_", "a", "b", "s", ":">>,
       <<" ", " ", " ", " ", "m", "u", "l", " ", " ", " ", "a", ",", " ", "-",
         "1">>,
       <<" ", " ", " ", " ", "j", "m", "p", " ", " ", " ", "i", "n", "i",
         "t">>,
       <<>>,
       <<"b", "_", "a", "b", "s", ":">>,
       <<" ", " ", " ", " ", "m", "u", "l", " ", " ", " ", "b", ",", " ", "-",
         "1">>,
       <<" ", " ", " ", " ", "j", "m", "p", " ", " ", " ", "i", "n", "i",
         "t">>,
       <<>>,
       <<"p", "r", "i", "n", "t", ":">>,
       <<" ", " ", " ", " ", "m", "s", "g", " ", " ", " ", "'", "g", "c", "d",
         "(", "'", ",", " ", "a", ",", " ", "'", ",", " ", "'", ",", " ", "b",
         ",", " ", "'", ")", " ", "=", " ", "'", ",", " ", "c">>,
       <<" ", " ", " ", " ", "r", "e", "t">> >>

\* the largest absolute value of a base of the first example
MaxBase == 2

\* the largest exponent of the first example
MaxExponent == 10

PowerPrograms ==
    {PowerProgram(A, B) : A \in -MaxBase..MaxBase, B \in 1..MaxExponent}

\* the largest absolute value of an input of the second example
MaxGcdInput == 4

GcdInputs ==
    {<<a, b>> : a \in (-MaxGcdInput..MaxGcdInput) \ {0},
                b \in (-MaxGcdInput..MaxGcdInput) \ {0}}
    \cup {<<81, 153>>}

GcdPrograms == {GcdProgram(in[1], in[2]) : in \in GcdInputs}

\* msg 'T' and end, for every short text T without quote and ';'
TextChars == {"a", " ", ","}

\* the longest quoted text of the text family, in characters
MaxTextLen == 3

Texts == {<<>>} \cup SeqsUpTo(TextChars, MaxTextLen)

QuotedProgram(T) == <<Line1("MSG", <<"'">> \o T \o <<"'">>), Line0("END")>>

QuotedPrograms == {QuotedProgram(T) : T \in Texts}

\* calls into label bodies that end at the next label or at the end of
\* the text: the example left in a comment of main, and a body followed by
\* another one
FallThroughPrograms ==
    { << Line1("CALL", <<"f", "u", "n", "c", "1">>),
         Line1("CALL", <<"p", "r", "i", "n", "t">>),
         Line0("END"),
         <<>>,
         LabelLine(<<"f", "u", "n", "c", "1">>),
         Line1("CALL", <<"f", "u", "n", "c", "2">>),
         Line0("RET"),
         <<>>,
         LabelLine(<<"f", "u", "n", "c", "2">>),
         Line0("RET"),
         <<>>,
         LabelLine(<<"p", "r", "i", "n", "t">>),
         Line1("MSG", <<"'", "T", "h", "i", "s", "'">>) >>,
      << Line1("CALL", <<"f">>), Line1("MSG", <<"a">>), Line0("END"),
         LabelLine(<<"f">>), Line1("INC", <<"a">>),
         LabelLine(<<"g">>), Line1("INC", <<"a">>), Line0("RET") >>,
      << Line1("CALL", <<"f">>), Line1("MSG", <<"a">>), Line0("END"),
         LabelLine(<<"f">>), Line1("INC", <<"a">>), Line0("RET"),
         LabelLine(<<"g">>), Line1("INC", <<"a">>), Line0("RET") >> }

\* source texts with lines the parser skips, and with lines that are not
\* instructions, at every position
BaseTexts ==
    { <<Line1("INC", <<"a">>), Line1("CALL", <<"f">>),
        Line1("MSG", <<"a">>), Line0("END"),
        LabelLine(<<"f">>), Line1("INC", <<"a">>), Line0("RET")>>,
      <<Line2("MOV", <<"a">>, <<"1">>), Line0("MSG"), Line0("END")>>,
      <<Line1("JMP", <<"f">>), LabelLine(<<"f">>), Line0("END")>> }

OddLines ==
    { <<"f", "o", "o">>,
      <<"M", "O", "V", " ", "a", ",", " ", "1">>,
      <<":">>,
      <<"f", ":", "g">>,
      <<" ", "n", "o", "p", " ", ";", " ", "x">>,
      <<>>,
      <<" ", "\t", " ">>,
      <<";", " ", "f", "o", "o">>,
      <<"\t", "d", "e", "c", "\t", "a", " ", ";", "f", "o", "o">>,
      <<"g", ":", " ", "f", "o", "o">> }

OddPrograms ==
    {SubSeq(base, 1, i) \o <<odd>> \o SubSeq(base, i + 1, Len(base)) :
        base \in BaseTexts, odd \in OddLines, i \in 0..3}

Programs ==
    CallPrograms \cup ComparePrograms \cup ArithmeticPrograms
    \cup OperandPrograms \cup MessagePrograms \cup OddPrograms
    \cup GrammarPrograms \cup QuotedPrograms \cup FallThroughPrograms

(***************************************************************************)
(* Interpreter::Interpreter: initVariables, then parseProgram, then        *)
(* execute.                                                                *)
(***************************************************************************)
NoInstruction == [type |-> "NONE", args |-> <<>>]

initVariables ==
    /\ regs = <<>>
    /\ cmpResult = 0
    /\ subroutines = <<>>
    /\ instructions = <<>>
    /\ messagePattern = <<>>
    /\ output = <<"-", "1">>

Init ==
    /\ program \in Programs
    /\ pc = "parseProgram"
    /\ lineNo = 0
    /\ subroutine = <<>>
    /\ call_stack = <<>>
    /\ instr = NoInstruction
    /\ exception = ""
    /\ initVariables

parseVars == <<program, lineNo, subroutine, subroutines, instructions>>

Throw(e) == pc' = "thrown" /\ exception' = e

Trap == pc' = "trapped" /\ exception' = exception

Continue == pc' = pc /\ exception' = exception

(***************************************************************************)
(* parseProgram: one iteration of while (std::getline(l_program, line)).   *)
(***************************************************************************)
Parsing == pc = "parseProgram" /\ lineNo < Len(program)

CurrentLine == trim(CropComment(program[lineNo + 1]))

CurrentType == FirstToken(CurrentLine)

IsLabelDeclaration(type) == Len(type) > 1 /\ type[Len(type)] = ":"

\* the operands of the current line, for a line whose operands can be read
CurrentArgs ==
    IF instructionTypeMap(CurrentType) = "MSG"
    THEN MsgScan(SubstrFrom(CurrentLine, TellAfterFirstToken(CurrentLine)),
                 <<>>, <<>>, FALSE)
    ELSE PlainArgs(CurrentLine, Len(CurrentType) + 1)

\* an empty line, or a line with only a comment
ParseEmptyLine ==
    /\ Parsing
    /\ CurrentLine = <<>>
    /\ lineNo' = lineNo + 1
    /\ UNCHANGED <<program, pc, subroutine, subroutines, instructions, regs,
                   cmpResult, call_stack, instr, messagePattern, output,
                   exception>>

\* a label: the following instructions go to its subroutine
ParseLabel ==
    /\ Parsing
    /\ CurrentLine # <<>>
    /\ IsLabelDeclaration(CurrentType)
    /\ LET name == SubSeq(CurrentType, 1, Len(CurrentType) - 1)
       IN  /\ subroutine' = name
           /\ subroutines' = [n \in DOMAIN subroutines \cup {name} |->
                                 IF n = name THEN <<>> ELSE subroutines[n]]
    /\ lineNo' = lineNo + 1
    /\ UNCHANGED <<program, pc, instructions, regs, cmpResult, call_stack,
                   instr, messagePattern, output, exception>>

ParseUnknownInstruction ==
    /\ Parsing
    /\ CurrentLine # <<>>
    /\ ~IsLabelDeclaration(CurrentType)
    /\ instructionTypeMap(CurrentType) = "NONE"
    /\ Throw("UNKOWN_INSTRUCTION_TYPE")
    /\ lineNo' = lineNo + 1
    /\ UNCHANGED <<program, subroutine, subroutines, instructions, regs,
                   cmpResult, call_stack, instr, messagePattern, output>>

\* msg with nothing after it: tellg() is -1 and substr throws
ParseMsgWithoutOperands ==
    /\ Parsing
    /\ CurrentLine # <<>>
    /\ ~IsLabelDeclaration(CurrentType)
    /\ instructionTypeMap(CurrentType) = "MSG"
    /\ TellAfterFirstToken(CurrentLine) = -1
    /\ Throw("std::out_of_range")
    /\ lineNo' = lineNo + 1
    /\ UNCHANGED <<program, subroutine, subroutines, instructions, regs,
                   cmpResult, call_stack, instr, messagePattern, output>>

\* a wrong parse step: ret does not close the label
ParseInstructionWithoutClosing ==
    /\ Parsing
    /\ CurrentLine # <<>>
    /\ ~IsLabelDeclaration(CurrentType)
    /\ instructionTypeMap(CurrentType) # "NONE"
    /\ ~(/\ instructionTypeMap(CurrentType) = "MSG"
         /\ TellAfterFirstToken(CurrentLine) = -1)
    /\ LET new == [type |-> instructionTypeMap(CurrentType),
                   args |-> CurrentArgs]
       IN  IF subroutine = <<>>
           THEN /\ instructions' = Append(instructions, new)
                /\ UNCHANGED <<subroutine, subroutines>>
           ELSE /\ subroutines' = [subroutines EXCEPT
                                      ![subroutine] = Append(@, new)]
                /\ subroutine' = subroutine
                /\ UNCHANGED instructions
    /\ lineNo' = lineNo + 1
    /\ UNCHANGED <<program, pc, regs, cmpResult, call_stack, instr,
                   messagePattern, output, exception>>

ParseInstruction ==
    /\ Parsing
    /\ CurrentLine # <<>>
    /\ ~IsLabelDeclaration(CurrentType)
    /\ instructionTypeMap(CurrentType) # "NONE"
    /\ ~(/\ instructionTypeMap(CurrentType) = "MSG"
         /\ TellAfterFirstToken(CurrentLine) = -1)
    /\ LET new == [type |-> instructionTypeMap(CurrentType),
                   args |-> CurrentArgs]
       IN  IF subroutine = <<>>
           THEN /\ instructions' = Append(instructions, new)
                /\ UNCHANGED <<subroutine, subroutines>>
           ELSE /\ subroutines' = [subroutines EXCEPT
                                      ![subroutine] = Append(@, new)]
                /\ subroutine' = IF new.type = "RET" THEN <<>> ELSE subroutine
                /\ UNCHANGED instructions
    /\ lineNo' = lineNo + 1
    /\ UNCHANGED <<program, pc, regs, cmpResult, call_stack, instr,
                   messagePattern, output, exception>>

(***************************************************************************)
(* execute: the call stack and one iteration of its loop.                  *)
(***************************************************************************)
callFrame(instrs) == [instructions |-> instrs, instructionPointer |-> 0]

\* parseProgram returns; execute pushes the main program
BeginExecute ==
    /\ pc = "parseProgram"
    /\ lineNo = Len(program)
    /\ pc' = "execute"
    /\ call_stack' = <<callFrame(instructions)>>
    /\ UNCHANGED <<parseVars, regs, cmpResult, instr, messagePattern, output,
                   exception>>

Running == pc = "execute" /\ call_stack # <<>>

Top == call_stack[Len(call_stack)]

\* a wrong pop: every frame above the main program is dropped
PoppedToMain ==
    SubSeq(call_stack, 1, IF Len(call_stack) > 1 THEN 1 ELSE 0)

Popped == SubSeq(call_stack, 1, Len(call_stack) - 1)

FrameFinished == Top.instructionPointer >= Len(Top.instructions)

\* frame.instructions[frame.instructionPointer++]
Fetched == Top.instructions[Top.instructionPointer + 1]

Advanced ==
    [call_stack EXCEPT ![Len(call_stack)].instructionPointer = @ + 1]

Dispatch(type) ==
    /\ Running
    /\ ~FrameFinished
    /\ Fetched.type = type
    /\ instr' = Fetched

\* a wrong exhaustion: the run ends, pending callers are dropped
FinishedFrameEndsRun ==
    /\ Running
    /\ FrameFinished
    /\ call_stack' = <<>>
    /\ UNCHANGED <<parseVars, pc, regs, cmpResult, instr, messagePattern,
                   output, exception>>

\* the frame on top has no instruction left
PopFinishedFrame ==
    /\ Running
    /\ FrameFinished
    /\ call_stack' = Popped
    /\ UNCHANGED <<parseVars, pc, regs, cmpResult, instr, messagePattern,
                   output, exception>>

\* the loop ends and the constructor returns: getOutput() gives output
ReturnOutput ==
    /\ pc = "execute"
    /\ call_stack = <<>>
    /\ pc' = "returned"
    /\ UNCHANGED <<parseVars, regs, cmpResult, call_stack, instr,
                   messagePattern, output, exception>>

(***************************************************************************)
(* execute: the lambdas of the loop body.                                  *)
(***************************************************************************)
validateArgCount(args, desiredSize) ==
    IF Len(args) # desiredSize THEN "INVALID_NUMBER_OF_ARGS" ELSE ""

validateArgs(args, desiredSize) ==
    IF validateArgCount(args, desiredSize) # ""
    THEN validateArgCount(args, desiredSize)
    ELSE IF ~isRegister(args[1]) THEN "FIRST_ARG_SHOULD_BE_A_REGISTER"
    ELSE ""

\* findSubroutine throws when the name is not a key of subroutines
SubroutineMissing(name) == name \notin DOMAIN subroutines

findSubroutine(name) == subroutines[name]

\* a wrong replacement: the pending callers are dropped with the frame
replaceEveryFrame(instrs) == <<callFrame(instrs)>>

\* call_stack.pop(); call_stack.push(frame)
replaceTopFrame(instrs) ==
    [call_stack EXCEPT ![Len(call_stack)] = callFrame(instrs)]

(***************************************************************************)
(* Signed overflow and division by zero are undefined behaviour: the       *)
(* result wraps around or the process is stopped by a trap; a division by  *)
(* zero that does not trap leaves some value in the register.              *)
(***************************************************************************)
StoreResult(rs, r, result) ==
    IF ~result.ub
    THEN Continue /\ regs' = SetReg(rs, r, result.val)
    ELSE \/ Continue /\ regs' = SetReg(rs, r, result.val)
         \/ Trap /\ regs' = rs

UndefinedQuotients(dividend) == {0, -1, dividend}

StoreQuotient(rs, r, divisor) ==
    IF divisor = 0
    THEN \/ Trap /\ regs' = rs
         \/ \E q \in UndefinedQuotients(RegVal(rs, r)) :
               Continue /\ regs' = SetReg(rs, r, q)
    ELSE StoreResult(rs, r, IntDiv(RegVal(rs, r), divisor))

(***************************************************************************)
(* execute: the cases of the switch.                                       *)
(***************************************************************************)
\* mov, add, sub, mul, div: validateArgs(2), then the register is updated
\* with the resolved second operand; when resolving throws, the register
\* may or may not have been looked up already
RegisterAndValue(type) ==
    /\ Dispatch(type)
    /\ call_stack' = Advanced
    /\ UNCHANGED <<parseVars, cmpResult, messagePattern, output>>

Mov ==
    /\ RegisterAndValue("MOV")
    /\ LET args == Fetched.args
       IN  IF validateArgs(args, 2) # ""
           THEN Throw(validateArgs(args, 2)) /\ regs' = regs
           ELSE LET rv == resolveValue(regs, args[2])
                IN  IF rv.exc # ""
                    THEN /\ Throw(rv.exc)
                         /\ regs' \in {regs, Touch(regs, args[1])}
                    ELSE StoreResult(rv.regs, args[1],
                                     [ub |-> FALSE, val |-> rv.val])

Add ==
    /\ RegisterAndValue("ADD")
    /\ LET args == Fetched.args
       IN  IF validateArgs(args, 2) # ""
           THEN Throw(validateArgs(args, 2)) /\ regs' = regs
           ELSE LET rv == resolveValue(regs, args[2])
                IN  IF rv.exc # ""
                    THEN /\ Throw(rv.exc)
                         /\ regs' \in {regs, Touch(regs, args[1])}
                    ELSE StoreResult(rv.regs, args[1],
                                     IntAdd(RegVal(rv.regs, args[1]), rv.val))

Sub ==
    /\ RegisterAndValue("SUB")
    /\ LET args == Fetched.args
       IN  IF validateArgs(args, 2) # ""
           THEN Throw(validateArgs(args, 2)) /\ regs' = regs
           ELSE LET rv == resolveValue(regs, args[2])
                IN  IF rv.exc # ""
                    THEN /\ Throw(rv.exc)
                         /\ regs' \in {regs, Touch(regs, args[1])}
                    ELSE StoreResult(rv.regs, args[1],
                                     IntSub(RegVal(rv.regs, args[1]), rv.val))

Mul ==
    /\ RegisterAndValue("MUL")
    /\ LET args == Fetched.args
       IN  IF validateArgs(args, 2) # ""
           THEN Throw(validateArgs(args, 2)) /\ regs' = regs
           ELSE LET rv == resolveValue(regs, args[2])
                IN  IF rv.exc # ""
                    THEN /\ Throw(rv.exc)
                         /\ regs' \in {regs, Touch(regs, args[1])}
                    ELSE StoreResult(rv.regs, args[1],
                                     IntMul(RegVal(rv.regs, args[1]), rv.val))

Div ==
    /\ RegisterAndValue("DIV")
    /\ LET args == Fetched.args
       IN  IF validateArgs(args, 2) # ""
           THEN Throw(validateArgs(args, 2)) /\ regs' = regs
           ELSE LET rv == resolveValue(regs, args[2])
                IN  IF rv.exc # ""
                    THEN /\ Throw(rv.exc)
                         /\ regs' \in {regs, Touch(regs, args[1])}
                    ELSE StoreQuotient(rv.regs, args[1], rv.val)

Inc ==
    /\ Dispatch("INC")
    /\ call_stack' = Advanced
    /\ UNCHANGED <<parseVars, cmpResult, messagePattern, output>>
    /\ LET args == Fetched.args
       IN  IF validateArgs(args, 1) # ""
           THEN Throw(validateArgs(args, 1)) /\ regs' = regs
           ELSE StoreResult(regs, args[1], IntAdd(RegVal(regs, args[1]), 1))

Dec ==
    /\ Dispatch("DEC")
    /\ call_stack' = Advanced
    /\ UNCHANGED <<parseVars, cmpResult, messagePattern, output>>
    /\ LET args == Fetched.args
       IN  IF validateArgs(args, 1) # ""
           THEN Throw(validateArgs(args, 1)) /\ regs' = regs
           ELSE StoreResult(regs, args[1], IntSub(RegVal(regs, args[1]), 1))

\* cmp: the two operands are resolved in either order
Cmp ==
    /\ Dispatch("CMP")
    /\ call_stack' = Advanced
    /\ UNCHANGED <<parseVars, messagePattern, output>>
    /\ LET args == Fetched.args
       IN  IF validateArgCount(args, 2) # ""
           THEN /\ Throw(validateArgCount(args, 2))
                /\ UNCHANGED <<regs, cmpResult>>
           ELSE \E first \in {1, 2} :
                  LET r1 == resolveValue(regs, args[first])
                      r2 == resolveValue(r1.regs, args[3 - first])
                      diff == IF first = 1 THEN IntSub(r1.val, r2.val)
                              ELSE IntSub(r2.val, r1.val)
                  IN  IF r1.exc # ""
                      THEN /\ Throw(r1.exc)
                           /\ UNCHANGED <<regs, cmpResult>>
                      ELSE IF r2.exc # ""
                      THEN /\ Throw(r2.exc)
                           /\ regs' = r1.regs
                           /\ UNCHANGED cmpResult
                      ELSE /\ regs' = r2.regs
                           /\ IF ~diff.ub
                              THEN Continue /\ cmpResult' = diff.val
                              ELSE \/ Continue /\ cmpResult' = diff.val
                                   \/ Trap /\ UNCHANGED cmpResult

\* a wrong condition: jne never jumps
JumpConditionWithoutJne(type, flag) ==
    CASE type = "JMP" -> TRUE
      [] type = "JNE" -> FALSE
      [] type = "JE" -> flag = 0
      [] type = "JGE" -> flag >= 0
      [] type = "JG" -> flag > 0
      [] type = "JLE" -> flag <= 0
      [] type = "JL" -> flag < 0

\* the condition under which a jump instruction of this type jumps
JumpCondition(type, flag) ==
    CASE type = "JMP" -> TRUE
      [] type = "JNE" -> flag # 0
      [] type = "JE" -> flag = 0
      [] type = "JGE" -> flag >= 0
      [] type = "JG" -> flag > 0
      [] type = "JLE" -> flag <= 0
      [] type = "JL" -> flag < 0

\* a wrong jump: the frame on top is popped before the subroutine is
\* looked up
JumpPopsBeforeLookup(type) ==
    /\ UNCHANGED <<parseVars, regs, cmpResult, messagePattern, output>>
    /\ LET args == Fetched.args
       IN  IF validateArgCount(args, 1) # ""
           THEN Throw(validateArgCount(args, 1)) /\ call_stack' = Advanced
           ELSE IF ~JumpCondition(type, cmpResult)
           THEN Continue /\ call_stack' = Advanced
           ELSE IF SubroutineMissing(args[1])
           THEN Throw("CAN_NOT_FIND_SUBROUTINE") /\ call_stack' = Popped
           ELSE /\ Continue
                /\ call_stack' = replaceTopFrame(findSubroutine(args[1]))

\* jmp and the conditional jumps: validateArgCount(1), then, when the
\* condition holds, the frame on top is replaced by the subroutine
Jump(type) ==
    /\ UNCHANGED <<parseVars, regs, cmpResult, messagePattern, output>>
    /\ LET args == Fetched.args
       IN  IF validateArgCount(args, 1) # ""
           THEN Throw(validateArgCount(args, 1)) /\ call_stack' = Advanced
           ELSE IF ~JumpCondition(type, cmpResult)
           THEN Continue /\ call_stack' = Advanced
           ELSE IF SubroutineMissing(args[1])
           THEN Throw("CAN_NOT_FIND_SUBROUTINE") /\ call_stack' = Advanced
           ELSE /\ Continue
                /\ call_stack' = replaceTopFrame(findSubroutine(args[1]))

Jmp == Dispatch("JMP") /\ Jump("JMP")

Jne == Dispatch("JNE") /\ Jump("JNE")

Je == Dispatch("JE") /\ Jump("JE")

Jge == Dispatch("JGE") /\ Jump("JGE")

Jg == Dispatch("JG") /\ Jump("JG")

Jle == Dispatch("JLE") /\ Jump("JLE")

Jl == Dispatch("JL") /\ Jump("JL")

\* the deepest call stack the model follows
MaxDepth == 12

Call ==
    /\ Dispatch("CALL")
    /\ Len(call_stack) < MaxDepth
    /\ UNCHANGED <<parseVars, regs, cmpResult, messagePattern, output>>
    /\ LET args == Fetched.args
       IN  IF validateArgCount(args, 1) # ""
           THEN Throw(validateArgCount(args, 1)) /\ call_stack' = Advanced
           ELSE IF SubroutineMissing(args[1])
           THEN Throw("CAN_NOT_FIND_SUBROUTINE") /\ call_stack' = Advanced
           ELSE /\ Continue
                /\ call_stack' = Append(Advanced,
                                        callFrame(findSubroutine(args[1])))

Msg ==
    /\ Dispatch("MSG")
    /\ call_stack' = Advanced
    /\ messagePattern' = Fetched.args
    /\ UNCHANGED <<parseVars, pc, regs, cmpResult, output, exception>>

\* a wrong ret: the comparison flag is reset
RetClearsFlag ==
    /\ Dispatch("RET")
    /\ call_stack' = Popped
    /\ cmpResult' = 0
    /\ UNCHANGED <<parseVars, pc, regs, messagePattern, output, exception>>

Ret ==
    /\ Dispatch("RET")
    /\ call_stack' = Popped
    /\ UNCHANGED <<parseVars, pc, regs, cmpResult, messagePattern, output,
                   exception>>

\* a wrong end: the call stack is not emptied, the frame goes on
EndWithoutClearing ==
    /\ Dispatch("END")
    /\ UNCHANGED <<parseVars, cmpResult, messagePattern>>
    /\ LET m == createMessage(messagePattern, regs)
       IN  /\ output' = m.output
           /\ regs' = m.regs
           /\ IF m.exc # ""
              THEN Throw(m.exc) /\ call_stack' = Advanced
              ELSE Continue /\ call_stack' = Advanced

\* end: createMessage(), then call_stack = {}
End ==
    /\ Dispatch("END")
    /\ UNCHANGED <<parseVars, cmpResult, messagePattern>>
    /\ LET m == createMessage(messagePattern, regs)
       IN  /\ output' = m.output
           /\ regs' = m.regs
           /\ IF m.exc # ""
              THEN Throw(m.exc) /\ call_stack' = Advanced
              ELSE Continue /\ call_stack' = <<>>

Next ==
    \/ ParseEmptyLine
    \/ ParseLabel
    \/ ParseUnknownInstruction
    \/ ParseMsgWithoutOperands
    \/ ParseInstruction
    \/ BeginExecute
    \/ PopFinishedFrame
    \/ Mov
    \/ Inc
    \/ Dec
    \/ Add
    \/ Sub
    \/ Mul
    \/ Div
    \/ Jmp
    \/ Cmp
    \/ Jne
    \/ Je
    \/ Jge
    \/ Jg
    \/ Jle
    \/ Jl
    \/ Call
    \/ Msg
    \/ Ret
    \/ End
    \/ ReturnOutput

Spec == Init /\ [][Next]_vars

(***************************************************************************)
(* main: the interpreter is constructed on the two example programs. The   *)
(* steps are those of the instructions the two programs hold; the          *)
(* constructor runs parseProgram and the loop of execute to their end, so  *)
(* a step that can be taken is taken.                                      *)
(***************************************************************************)
ExamplePrograms == PowerPrograms \cup GcdPrograms

ExampleInit ==
    /\ program \in ExamplePrograms
    /\ pc = "parseProgram"
    /\ lineNo = 0
    /\ subroutine = <<>>
    /\ call_stack = <<>>
    /\ instr = NoInstruction
    /\ exception = ""
    /\ initVariables

ExampleNext ==
    \/ ParseEmptyLine
    \/ ParseLabel
    \/ ParseInstruction
    \/ BeginExecute
    \/ PopFinishedFrame
    \/ Mov
    \/ Dec
    \/ Sub
    \/ Mul
    \/ Jmp
    \/ Cmp
    \/ Jne
    \/ Je
    \/ Jg
    \/ Jl
    \/ Call
    \/ Msg
    \/ Ret
    \/ End
    \/ ReturnOutput

ExampleSpec == ExampleInit /\ [][ExampleNext]_vars /\ WF_vars(ExampleNext)

(***************************************************************************)
(* Properties.                                                             *)
(***************************************************************************)
\* the frame waits right after a call instruction of its sequence
ResumesAfterCall(frame) ==
    /\ frame.instructionPointer >= 1
    /\ frame.instructionPointer <= Len(frame.instructions)
    /\ frame.instructions[frame.instructionPointer].type = "CALL"

\* C1: every frame below the top of the call stack is a caller waiting at
\* the instruction right after its call; a successful call pushes the body
\* of its label on top of the callers, and a ret executed in a called body
\* removes only that body's frame, so that the most recent caller resumes
\* right after its call and callers resume in last-in-first-out order.
C1_RetResumesAfterCall ==
    /\ [](\A i \in 1..(Len(call_stack) - 1) :
             ResumesAfterCall(call_stack[i]))
    /\ [][/\ (Running /\ ~FrameFinished /\ Fetched.type = "CALL"
              /\ pc' = "execute")
             => /\ Len(call_stack') = Len(call_stack) + 1
                /\ SubSeq(call_stack', 1, Len(call_stack)) = Advanced
                /\ call_stack'[Len(call_stack')] =
                      callFrame(subroutines[Fetched.args[1]])
          /\ (Running /\ ~FrameFinished /\ Fetched.type = "RET"
              /\ Len(call_stack) >= 2)
             => /\ pc' = "execute"
                /\ call_stack' = SubSeq(call_stack, 1, Len(call_stack) - 1)
                /\ ResumesAfterCall(call_stack'[Len(call_stack')])
                /\ call_stack'[Len(call_stack')].instructions =
                      call_stack[Len(call_stack) - 1].instructions
         ]_vars

\* a ret has returned from a call made inside a called body, and the body
\* that made the call goes on after its call
C1_Witness ==
    /\ pc = "execute"
    /\ instr.type = "RET"
    /\ Len(call_stack) >= 2
    /\ ResumesAfterCall(call_stack[Len(call_stack)])
    /\ ~FrameFinished

\* the loop is about to execute an instruction of this type
Executing(type) == Running /\ ~FrameFinished /\ Fetched.type = type

\* C2: a ret executed while no call is pending (only the frame of the main
\* flow, or of a body the main flow jumped to, is on the call stack) is
\* fatal: the run ends with an exception and returns no output.
C2_RetWithoutCallIsFatal ==
    [][(Executing("RET") /\ Len(call_stack) = 1) => pc' = "thrown"]_vars

\* c is exactly x - y, stated without leaving the int range
ExactDifference(c, x, y) ==
    IF y >= 0 THEN c <= INT_MAX - y /\ c + y = x
    ELSE c >= INT_MIN - y /\ c + y = x

\* C3: after cmp x, y with resolvable operands the flag is exactly
\* resolved(x) - resolved(y); a conditional jump to an existing label
\* replaces the running sequence by the label's body exactly when the flag
\* satisfies its condition (jne: # 0, je: = 0, jge: >= 0, jg: > 0,
\* jle: <= 0, jl: < 0) and otherwise goes on with the next instruction.
C3_CompareAndJump ==
    [][/\ (/\ Executing("CMP")
           /\ Len(Fetched.args) = 2
           /\ resolveValue(regs, Fetched.args[1]).exc = ""
           /\ resolveValue(regs, Fetched.args[2]).exc = ""
           /\ pc' = "execute")
          => ExactDifference(cmpResult',
                             resolveValue(regs, Fetched.args[1]).val,
                             resolveValue(regs, Fetched.args[2]).val)
       /\ (/\ Running /\ ~FrameFinished
           /\ Fetched.type \in JumpTypes \ {"JMP"}
           /\ Len(Fetched.args) = 1
           /\ Fetched.args[1] \in DOMAIN subroutines)
          => /\ pc' = "execute"
             /\ call_stack' =
                  IF CASE Fetched.type = "JNE" -> cmpResult # 0
                       [] Fetched.type = "JE" -> cmpResult = 0
                       [] Fetched.type = "JGE" -> cmpResult >= 0
                       [] Fetched.type = "JG" -> cmpResult > 0
                       [] Fetched.type = "JLE" -> cmpResult <= 0
                       [] Fetched.type = "JL" -> cmpResult < 0
                  THEN [call_stack EXCEPT ![Len(call_stack)] =
                          callFrame(subroutines[Fetched.args[1]])]
                  ELSE Advanced
      ]_vars

\* C4: a run that returns normally has an output other than the default
\* "-1" only if its last instruction was an end executed with a non-empty
\* stored pattern: without end (even after msg), and with end but no
\* executed msg, the output is "-1".
C4_DefaultOutput ==
    (pc = "returned" /\ ~(instr.type = "END" /\ messagePattern # <<>>))
    => output = <<"-", "1">>

\* a msg was executed, the instructions ran out without end, and the
\* caller gets "-1"
C4_Witness ==
    /\ pc = "returned"
    /\ instr.type # "END"
    /\ messagePattern # <<>>
    /\ output = <<"-", "1">>

\* C5: end stops the run at any call depth: when end is executed, the call
\* stack is emptied whatever it held (or the formatter's exception ends
\* the run), the only step left is the return of the output, and after
\* the run has ended nothing changes any more.
C5_EndTerminates ==
    [][/\ Executing("END")
          => \/ pc' = "thrown"
             \/ pc' = "execute" /\ call_stack' = <<>>
       /\ (pc = "execute" /\ call_stack = <<>>)
          => /\ pc' = "returned"
             /\ UNCHANGED <<regs, cmpResult, output, messagePattern, instr,
                            call_stack>>
       /\ pc \notin {"returned", "thrown", "trapped"}
      ]_vars

\* end was executed in a subroutine called from a main program that has
\* an instruction left after the call, inc a, which never ran
C5_Witness ==
    /\ pc = "returned"
    /\ instr.type = "END"
    /\ Len(instructions) = 2
    /\ instructions[1] = [type |-> "CALL", args |-> <<<<"f">>>>]
    /\ instructions[2] = [type |-> "INC", args |-> <<<<"a">>>>]
    /\ RegVal(regs, <<"a">>) = 1

\* an operand 'text' with both quotes, or a register name
IsQuotedOperand(a) == Len(a) >= 2 /\ a[1] = "'" /\ a[Len(a)] = "'"

IsRegisterOperand(a) == a # <<>> /\ \A i \in 1..Len(a) : a[i] \in Lower

\* the text of operands i.. of a pattern of quoted and register operands
RECURSIVE PatternText(_, _, _)
PatternText(pattern, i, rs) ==
    IF i > Len(pattern) THEN <<>>
    ELSE (IF IsQuotedOperand(pattern[i])
          THEN SubSeq(pattern[i], 2, Len(pattern[i]) - 1)
          ELSE to_string(RegVal(rs, pattern[i])))
         \o PatternText(pattern, i + 1, rs)

\* C6: the stored pattern is always the operand list of the most recently
\* executed msg, and when end executes with a non-empty pattern of quoted
\* and register operands the output is the in-order concatenation of the
\* quoted texts without their quotes and of the decimal values the
\* registers hold at that moment.
C6_MessageFormat ==
    [][/\ IF Executing("MSG")
          THEN messagePattern' = Fetched.args
          ELSE messagePattern' = messagePattern
       /\ (/\ Executing("END")
           /\ messagePattern # <<>>
           /\ \A i \in 1..Len(messagePattern) :
                 \/ IsQuotedOperand(messagePattern[i])
                 \/ IsRegisterOperand(messagePattern[i]))
          => /\ pc' = "execute"
             /\ output' = PatternText(messagePattern, 1, regs)
      ]_vars

\* msg 'old', c; mov c, 1; msg a, '^', b, ' = ', c; mov c, 1024; end
\* gives "2^10 = 1024"
C6_Witness ==
    /\ pc = "returned"
    /\ instr.type = "END"
    /\ messagePattern = << <<"a">>, <<"'", "^", "'">>, <<"b">>,
                           <<"'", " ", "=", " ", "'">>, <<"c">> >>
    /\ output = <<"2", "^", "1", "0", " ", "=", " ", "1", "0", "2", "4">>

\* a non-blank line that is not a label and whose mnemonic is not known
HasUnknownLine ==
    \E i \in 1..Len(program) :
       LET line == trim(CropComment(program[i]))
       IN  /\ line # <<>>
           /\ ~IsLabelDeclaration(FirstToken(line))
           /\ instructionTypeMap(FirstToken(line)) = "NONE"

\* C7: a source with an unrecognized mnemonic on any non-blank, non-label
\* line is rejected with the unknown-instruction error before anything is
\* executed: the run never leaves parsing except by that error, and no
\* register, flag, message pattern or output is modified.
C7_UnknownMnemonicRejected ==
    HasUnknownLine
    => /\ pc \in {"parseProgram", "thrown"}
       /\ pc = "thrown" => exception = "UNKOWN_INSTRUCTION_TYPE"
       /\ regs = <<>>
       /\ cmpResult = 0
       /\ messagePattern = <<>>
       /\ output = <<"-", "1">>

\* C8: div r, x with x resolving to 0 is a fatal error: the run aborts
\* with an error and register r keeps its value.
C8_DivisionByZeroIsFatal ==
    [][(/\ Executing("DIV")
        /\ validateArgs(Fetched.args, 2) = ""
        /\ resolveValue(regs, Fetched.args[2]).exc = ""
        /\ resolveValue(regs, Fetched.args[2]).val = 0)
       => /\ pc' = "thrown"
          /\ RegVal(regs', Fetched.args[1]) = RegVal(regs, Fetched.args[1])
      ]_vars

\* the instruction fetched transfers control to the label it names
TransfersControl ==
    /\ Running
    /\ ~FrameFinished
    /\ Fetched.type \in JumpTypes \cup {"CALL"}
    /\ Len(Fetched.args) = 1
    /\ Fetched.type = "CALL" \/ JumpCondition(Fetched.type, cmpResult)

\* C9: jmp L, call L or a conditional jump whose condition holds, with L
\* not in the label table, aborts the run with the unknown-label error:
\* registers and flag are unchanged and no frame of the call stack is
\* pushed, popped or replaced (the frame on top only has its cursor past
\* the failing instruction).
C9_UnknownLabelIsFatal ==
    [][(TransfersControl /\ Fetched.args[1] \notin DOMAIN subroutines)
       => /\ pc' = "thrown"
          /\ exception' = "CAN_NOT_FIND_SUBROUTINE"
          /\ call_stack' = Advanced
          /\ UNCHANGED <<regs, cmpResult, messagePattern, output>>
      ]_vars

\* a jump or a call named a label that does not exist and the run was
\* aborted with the frame on top past that instruction
C9_Witness ==
    /\ pc = "thrown"
    /\ exception = "CAN_NOT_FIND_SUBROUTINE"
    /\ instr.type \in JumpTypes \cup {"CALL"}
    /\ instr.args[1] \notin DOMAIN subroutines
    /\ call_stack # <<>>
    /\ call_stack[Len(call_stack)].instructionPointer >= 1

\* the register-name grammar: non-empty, lowercase a-z only
ValidRegisterName(a) == a # <<>> /\ \A i \in 1..Len(a) : a[i] \in Lower

\* the signed-integer grammar -?(0|[1-9][0-9]*)
ValidLiteral(a) ==
    LET d == IF a # <<>> /\ a[1] = "-" THEN Tail(a) ELSE a
    IN  /\ d # <<>>
        /\ \A i \in 1..Len(d) : d[i] \in Digits
        /\ Len(d) = 1 \/ d[1] # "0"

\* the operands of the instruction fetched are not those its kind takes
InvalidOperands ==
    LET args == Fetched.args
    IN  \/ /\ Fetched.type \in {"MOV", "ADD", "SUB", "MUL", "DIV"}
           /\ \/ Len(args) # 2
              \/ ~ValidRegisterName(args[1])
              \/ ~(ValidRegisterName(args[2]) \/ ValidLiteral(args[2]))
        \/ /\ Fetched.type \in {"INC", "DEC"}
           /\ \/ Len(args) # 1
              \/ ~ValidRegisterName(args[1])

\* C10: mov/add/sub/mul/div with other than 2 operands, inc/dec with other
\* than 1, a first operand that is not a valid register name, or a second
\* operand that is neither a valid register name nor a valid integer
\* literal, is fatal: the run aborts and no register value changes.
C10_InvalidOperandsAreFatal ==
    [][(Running /\ ~FrameFinished /\ InvalidOperands)
       => /\ pc' = "thrown"
          /\ \A r \in DOMAIN regs \cup DOMAIN regs' :
                RegVal(regs', r) = RegVal(regs, r)
      ]_vars

\* C11: isConst accepts exactly the texts of the signed-integer grammar
\* -?(0|[1-9][0-9]*): for every operand of an executed instruction that
\* resolves its operands, isConst is true if and only if the operand matches the grammar.
C11_IsConstMatchesGrammar ==
    instr.type \in {"MOV", "ADD", "SUB", "MUL", "DIV", "CMP"}
    => \A j \in 1..Len(instr.args) :
       isConst(instr.args[j]) <=> ValidLiteral(instr.args[j])

\* C12: isRegister accepts exactly the non-empty texts of lowercase
\* letters: for every operand of an executed instruction that validates
\* or resolves its operands, isRegister is true if and only if the operand matches ^[a-z]+$.
C12_IsRegisterMatchesGrammar ==
    instr.type \in {"MOV", "ADD", "SUB", "MUL", "DIV", "INC", "DEC", "CMP"}
    => \A j \in 1..Len(instr.args) :
       isRegister(instr.args[j]) <=> ValidRegisterName(instr.args[j])

\* the text "A^B = " followed by A to the power B
PowerOutput(A, B) ==
    to_string(A) \o <<"^">> \o to_string(B) \o <<" ", "=", " ">>
    \o to_string(A ^ B)

\* C13: the recursive example program terminates for every base A and
\* every exponent B >= 1 of the range: the run returns with output
\* "A^B = " followed by A to the power B, and when end executes every call
\* has returned, only the main program is left on the call stack.
C13_PowerExample ==
    /\ [](program \in PowerPrograms /\ Executing("END")
          => Len(call_stack) = 1)
    /\ (program \in PowerPrograms)
       ~> (/\ pc = "returned"
           /\ \E A \in -MaxBase..MaxBase, B \in 1..MaxExponent :
                 program = PowerProgram(A, B) /\ output = PowerOutput(A, B))

\* the example of main: base 2, exponent 10, output "2^10 = 1024"
C13_Witness ==
    /\ pc = "returned"
    /\ program = PowerProgram(2, 10)
    /\ RegVal(regs, <<"d">>) = 1
    /\ output = <<"2", "^", "1", "0", " ", "=", " ", "1", "0", "2", "4">>

Abs(x) == IF x < 0 THEN -x ELSE x

Divides(g, x) == x % g = 0

\* the greatest common divisor of two positive numbers
Gcd(x, y) ==
    CHOOSE g \in 1..x :
       /\ Divides(g, x) /\ Divides(g, y)
       /\ \A h \in 1..x : Divides(h, x) /\ Divides(h, y) => h <= g

\* the text "gcd(x, y) = g"
GcdOutput(x, y) ==
    <<"g", "c", "d", "(">> \o to_string(x) \o <<",", " ">> \o to_string(y)
    \o <<")", " ", "=", " ">> \o to_string(Gcd(x, y))

\* C14: the Euclidean example program terminates for all non-zero inputs
\* a, b of the range, of either sign: the run returns with the output
\* "gcd(|a|, |b|) = g", g the greatest common divisor of |a| and |b|.
C14_GcdExample ==
    (program \in GcdPrograms)
    ~> (/\ pc = "returned"
        /\ \E in \in GcdInputs :
              /\ program = GcdProgram(in[1], in[2])
              /\ output = GcdOutput(Abs(in[1]), Abs(in[2])))

\* the example of main: gcd(81, 153) = 9
C14_Witness ==
    /\ pc = "returned"
    /\ program = GcdProgram(81, 153)
    /\ output = <<"g", "c", "d", "(", "8", "1", ",", " ", "1", "5", "3", ")",
                  " ", "=", " ", "9">>

\* the number of quote characters among the first i characters
QuotesBefore(chars, i) == Cardinality({j \in 1..i : chars[j] = "'"})

\* the positions of the commas that are outside quotes
Separators(chars) ==
    {i \in 1..Len(chars) : chars[i] = "," /\ QuotesBefore(chars, i) % 2 = 0}

\* the position of the k-th separator; 0 before the first, Len + 1 after
\* the last
SeparatorAt(chars, k) ==
    IF k = 0 THEN 0
    ELSE IF k > Cardinality(Separators(chars)) THEN Len(chars) + 1
    ELSE CHOOSE i \in Separators(chars) :
            Cardinality({j \in Separators(chars) : j < i}) = k - 1

\* a text without its leading spaces
WithoutLeadingSpaces(text) ==
    LET kept == {i \in 1..Len(text) : text[i] # " "}
    IN  IF kept = {} THEN <<>>
        ELSE SubSeq(text, CHOOSE i \in kept : \A j \in kept : i <= j,
                    Len(text))

\* the k-th operand: the text between two separators, without its leading
\* spaces
OperandAt(chars, k) ==
    WithoutLeadingSpaces(SubSeq(chars, SeparatorAt(chars, k - 1) + 1,
                                SeparatorAt(chars, k) - 1))

\* the operands of a msg line: one before each separator, and the text
\* after the last separator unless it is empty
SplitOperands(chars) ==
    LET n == Cardinality(Separators(chars))
    IN  [k \in 1..(IF OperandAt(chars, n + 1) = <<>> THEN n ELSE n + 1) |->
            OperandAt(chars, k)]

\* the instruction a parse step has appended
Appended ==
    IF subroutine = <<>> THEN instructions'[Len(instructions')]
    ELSE subroutines'[subroutine][Len(subroutines'[subroutine])]

\* C15: the operands stored for a msg line are the texts between the
\* commas that are outside quotes, without their leading spaces, quotes
\* and everything between them kept (commas and spaces included);
\* consequently msg 'T' followed by end outputs exactly T, for every text
\* T without quote and ';'.
C15_MsgOperandScan ==
    /\ [][(/\ Parsing
           /\ instructionTypeMap(CurrentType) = "MSG"
           /\ TellAfterFirstToken(CurrentLine) # -1)
          => /\ Appended.type = "MSG"
             /\ Appended.args =
                   SplitOperands(SubstrFrom(CurrentLine,
                                            TellAfterFirstToken(CurrentLine)))
         ]_vars
    /\ [](\A T \in Texts :
             (pc = "returned" /\ program = QuotedProgram(T)) => output = T)

\* msg ' ,a' and end: the output is " ,a"
C15_Witness ==
    /\ pc = "returned"
    /\ program = QuotedProgram(<<" ", ",", "a">>)
    /\ messagePattern = << <<"'", " ", ",", "a", "'">> >>
    /\ output = <<" ", ",", "a">>

\* C16: the comparison flag is 0 when execution starts and only cmp
\* changes it: every step that does not execute a cmp (mov, inc, dec, add,
\* sub, mul, div, jumps taken or not, call, ret, msg, end, the exhaustion
\* of a frame) leaves it as it was, across calls and returns.
C16_OnlyCmpChangesFlag ==
    /\ [](pc = "parseProgram" => cmpResult = 0)
    /\ [][~Executing("CMP") => cmpResult' = cmpResult]_vars

\* a cmp executed inside a called subroutine set the flag, and the flag
\* is still there in the main program after ret
C16_Witness ==
    /\ pc = "execute"
    /\ instr.type = "RET"
    /\ Len(call_stack) = 1
    /\ \A i \in 1..Len(instructions) : instructions[i].type # "CMP"
    /\ cmpResult # 0

\* line i of the source as the parser sees it
LineText(i) == trim(CropComment(program[i]))

LineIsLabel(i) ==
    LineText(i) # <<>> /\ IsLabelDeclaration(FirstToken(LineText(i)))

LineIsRet(i) ==
    /\ LineText(i) # <<>>
    /\ ~LineIsLabel(i)
    /\ instructionTypeMap(FirstToken(LineText(i))) = "RET"

\* the label open when line k is parsed, by the text alone: the label of
\* the last declaration before k, unless a ret follows it before k; <<>>
\* when no label is open
OpenLabelAt(k) ==
    LET marks == {j \in 1..(k - 1) : LineIsLabel(j) \/ LineIsRet(j)}
    IN  IF marks = {} THEN <<>>
        ELSE LET last == CHOOSE j \in marks : \A m \in marks : m <= j
             IN  IF LineIsLabel(last)
                 THEN SubSeq(FirstToken(LineText(last)), 1,
                             Len(FirstToken(LineText(last))) - 1)
                 ELSE <<>>

\* C17: an instruction parsed while a label is open (after its declaration
\* and up to the first ret after it, with no other declaration in
\* between) is appended to that label's sequence and to no other; an
\* instruction parsed while no label is open is appended to the main
\* sequence, in source order.
C17_InstructionsGoToOpenLabel ==
    [][(/\ Parsing
        /\ LineText(lineNo + 1) # <<>>
        /\ ~LineIsLabel(lineNo + 1)
        /\ pc' = "parseProgram")
       => LET open == OpenLabelAt(lineNo + 1)
              type == instructionTypeMap(FirstToken(LineText(lineNo + 1)))
          IN  IF open = <<>>
              THEN /\ Len(instructions') = Len(instructions) + 1
                   /\ SubSeq(instructions', 1, Len(instructions))
                         = instructions
                   /\ instructions'[Len(instructions')].type = type
                   /\ subroutines' = subroutines
              ELSE /\ instructions' = instructions
                   /\ open \in DOMAIN subroutines
                   /\ DOMAIN subroutines' = DOMAIN subroutines
                   /\ \A n \in DOMAIN subroutines \ {open} :
                         subroutines'[n] = subroutines[n]
                   /\ Len(subroutines'[open]) = Len(subroutines[open]) + 1
                   /\ SubSeq(subroutines'[open], 1, Len(subroutines[open]))
                         = subroutines[open]
                   /\ subroutines'[open][Len(subroutines'[open])].type = type
      ]_vars

\* the source ends with a ret that closes a label and one more line, a
\* msg, which was appended to the main sequence
C17_Witness ==
    /\ pc = "execute"
    /\ Len(program) >= 3
    /\ LineIsRet(Len(program) - 1)
    /\ OpenLabelAt(Len(program) - 1) # <<>>
    /\ OpenLabelAt(Len(program)) = <<>>
    /\ instructions # <<>>
    /\ instructions[Len(instructions)].type = "MSG"
    /\ \A n \in DOMAIN subroutines :
          \A i \in 1..Len(subroutines[n]) : subroutines[n][i].type # "MSG"

(***************************************************************************)
(* The flat representation: one instruction array for the whole source,    *)
(* labels as indices into it, a cursor, and a call stack of return         *)
(* indices.                                                                *)
(***************************************************************************)
\* the lines of the source that hold an instruction
InstructionLines ==
    {k \in 1..Len(program) : LineText(k) # <<>> /\ ~LineIsLabel(k)}

LabelLines == {k \in 1..Len(program) : LineIsLabel(k)}

LabelName(k) ==
    SubSeq(FirstToken(LineText(k)), 1, Len(FirstToken(LineText(k))) - 1)

LineInstruction(k) ==
    ByValue(LAMBDA line :
              [type |-> instructionTypeMap(FirstToken(line)),
               args |-> IF TellAfterFirstToken(line) = -1 THEN <<>>
                        ELSE IF instructionTypeMap(FirstToken(line)) = "MSG"
                        THEN MsgScan(SubstrFrom(line,
                                                TellAfterFirstToken(line)),
                                     <<>>, <<>>, FALSE)
                        ELSE PlainArgs(line, Len(FirstToken(line)) + 1)],
            LineText(k))

\* the instruction array, in source order
FlatCode ==
    [n \in 1..Cardinality(InstructionLines) |->
        LineInstruction(CHOOSE k \in InstructionLines :
                           Cardinality({j \in InstructionLines : j < k})
                              = n - 1)]

\* the label table: the index (from 0) of the first instruction after the
\* label
FlatLabels ==
    [name \in {LabelName(k) : k \in LabelLines} |->
        Cardinality({j \in InstructionLines :
                        j < CHOOSE k \in LabelLines : LabelName(k) = name})]

FlatStart ==
    [cursor |-> 0, stack |-> <<>>, regs |-> <<>>, flag |-> 0,
     pattern |-> <<>>]

FlatEnded(s, out) ==
    [kind |-> "returned", output |-> out, error |-> "", regs |-> s.regs]

FlatFailed(s, e) ==
    [kind |-> "thrown", output |-> <<>>, error |-> e, regs |-> s.regs]

\* the effect of an instruction that only computes: inc, dec, mov, cmp
FlatCompute(s, in) ==
    CASE in.type \in {"INC", "DEC"} ->
           IF validateArgs(in.args, 1) # ""
           THEN [exc |-> validateArgs(in.args, 1), state |-> s]
           ELSE [exc |-> "",
                 state |-> [s EXCEPT !.regs =
                    SetReg(s.regs, in.args[1],
                           IF in.type = "INC"
                           THEN WrapAdd(RegVal(s.regs, in.args[1]), 1)
                           ELSE WrapSub(RegVal(s.regs, in.args[1]), 1))]]
      [] in.type = "MOV" ->
           IF validateArgs(in.args, 2) # ""
           THEN [exc |-> validateArgs(in.args, 2), state |-> s]
           ELSE LET rv == resolveValue(s.regs, in.args[2])
                IN  [exc |-> rv.exc,
                     state |-> IF rv.exc # "" THEN s
                               ELSE [s EXCEPT !.regs =
                                       SetReg(rv.regs, in.args[1], rv.val)]]
      [] in.type = "CMP" ->
           IF validateArgCount(in.args, 2) # ""
           THEN [exc |-> validateArgCount(in.args, 2), state |-> s]
           ELSE LET r1 == resolveValue(s.regs, in.args[1])
                    r2 == resolveValue(r1.regs, in.args[2])
                IN  IF r1.exc # "" THEN [exc |-> r1.exc, state |-> s]
                    ELSE IF r2.exc # "" THEN [exc |-> r2.exc, state |-> s]
                    ELSE [exc |-> "",
                          state |-> [s EXCEPT !.regs = r2.regs,
                                              !.flag = WrapSub(r1.val,
                                                               r2.val)]]

\* the most instructions a flat run is followed for
MaxFlatSteps == 40

\* the outcome of the flat run from state s
RECURSIVE FlatRun(_, _, _, _)
FlatRun(code, labels, state, fuel) ==
    ByValue(LAMBDA s :
      IF fuel = 0
      THEN [kind |-> "running", output |-> <<>>, error |-> "",
            regs |-> s.regs]
      ELSE IF s.cursor >= Len(code) THEN FlatEnded(s, <<"-", "1">>)
      ELSE LET in == code[s.cursor + 1]
               next == [s EXCEPT !.cursor = @ + 1]
           IN  CASE in.type \in JumpTypes \cup {"CALL"} ->
                      IF validateArgCount(in.args, 1) # ""
                      THEN FlatFailed(s, validateArgCount(in.args, 1))
                      ELSE IF /\ in.type # "CALL"
                              /\ ~JumpCondition(in.type, s.flag)
                      THEN FlatRun(code, labels, next, fuel - 1)
                      ELSE IF in.args[1] \notin DOMAIN labels
                      THEN FlatFailed(s, "CAN_NOT_FIND_SUBROUTINE")
                      ELSE FlatRun(code, labels,
                                   [next EXCEPT
                                      !.cursor = labels[in.args[1]],
                                      !.stack = IF in.type = "CALL"
                                                THEN Append(@, next.cursor)
                                                ELSE @],
                                   fuel - 1)
                 [] in.type = "RET" ->
                      IF s.stack = <<>> THEN FlatFailed(s, "EMPTY_CALL_STACK")
                      ELSE FlatRun(code, labels,
                                   [s EXCEPT
                                      !.cursor = s.stack[Len(s.stack)],
                                      !.stack = SubSeq(@, 1, Len(@) - 1)],
                                   fuel - 1)
                 [] in.type = "MSG" ->
                      FlatRun(code, labels, [next EXCEPT !.pattern = in.args],
                              fuel - 1)
                 [] in.type = "END" ->
                      LET m == createMessage(s.pattern, s.regs)
                      IN  IF m.exc # ""
                          THEN FlatFailed([s EXCEPT !.regs = m.regs], m.exc)
                          ELSE FlatEnded([s EXCEPT !.regs = m.regs],
                                         m.output)
                 [] OTHER ->
                      LET c == FlatCompute(next, in)
                      IN  IF c.exc # "" THEN FlatFailed(s, c.exc)
                          ELSE FlatRun(code, labels, c.state, fuel - 1),
      state)

FlatOutcome == FlatRun(FlatCode, FlatLabels, FlatStart, MaxFlatSteps)

\* the instructions of the two representations are those the flat run
\* computes with
FlatInstructionTypes ==
    JumpTypes \cup {"CALL", "RET", "MSG", "END", "INC", "DEC", "MOV", "CMP"}

\* every label is declared once, the main sequence is in front of the
\* first label, ends with end and holds no ret, and the flat run knows
\* every instruction
SingleContiguousBodies ==
    /\ \A j, k \in LabelLines : LabelName(j) = LabelName(k) => j = k
    /\ \A i \in InstructionLines :
          /\ (\E k \in LabelLines : k < i) => OpenLabelAt(i) # <<>>
          /\ instructionTypeMap(FirstToken(LineText(i)))
                \in FlatInstructionTypes
    /\ \E i \in InstructionLines :
          /\ \A k \in LabelLines : i < k
          /\ \A j \in InstructionLines : (\A k \in LabelLines : j < k)
                                         => j <= i
          /\ instructionTypeMap(FirstToken(LineText(i))) = "END"
    /\ \A i \in InstructionLines :
          (\A k \in LabelLines : i < k)
          => instructionTypeMap(FirstToken(LineText(i))) # "RET"

SameRegisters(r1, r2) ==
    \A n \in DOMAIN r1 \cup DOMAIN r2 : RegVal(r1, n) = RegVal(r2, n)

\* C18: for a program in which each label has a single contiguous body
\* bounded by a following label or a ret (here even: the main sequence in
\* front of the first label, ending with end, without ret), the run of the
\* per-label
\* sequences and the run of the flat representation have the same
\* outcome: the same final registers and the same output or the same
\* fatal error.
C18_SameOutcomeAsFlat ==
    (pc = "returned" /\ SingleContiguousBodies)
    => /\ FlatOutcome.kind = "returned"
       /\ FlatOutcome.output = output
       /\ SameRegisters(FlatOutcome.regs, regs)

\* the jump about to be executed is taken and its label exists
TakenJump ==
    /\ Running
    /\ ~FrameFinished
    /\ Fetched.type \in JumpTypes
    /\ Len(Fetched.args) = 1
    /\ JumpCondition(Fetched.type, cmpResult)
    /\ Fetched.args[1] \in DOMAIN subroutines

\* C19: a taken jmp or conditional jump keeps the call depth: the frame on
\* top becomes the body of the label from its first instruction, whatever
\* was left of the sequence being executed, and every pending caller keeps
\* its sequence and its resume position; a ret then removes only the frame
\* on top, so after a call and any number of jumps the next ret resumes
\* after that call.
C19_JumpsKeepCallDepth ==
    [][/\ TakenJump
          => /\ pc' = "execute"
             /\ Len(call_stack') = Len(call_stack)
             /\ SubSeq(call_stack', 1, Len(call_stack') - 1) = Popped
             /\ call_stack'[Len(call_stack')] =
                   callFrame(subroutines[Fetched.args[1]])
       /\ (Executing("RET") /\ Len(call_stack) >= 2)
          => /\ call_stack' = Popped
             /\ ResumesAfterCall(call_stack'[Len(call_stack')])
      ]_vars

\* main called f, f jumped to g without returning, leaving its last
\* instruction unexecuted, and the ret of g has resumed main after its call
C19_Witness ==
    /\ pc = "execute"
    /\ instr.type = "RET"
    /\ Len(call_stack) = 1
    /\ ResumesAfterCall(Top)
    /\ LET callee == subroutines[Top.instructions[Top.instructionPointer]
                                    .args[1]]
       IN  /\ \A i \in 1..Len(callee) : callee[i].type \notin {"RET", "CALL"}
           /\ \E i \in 1..(Len(callee) - 1) : callee[i].type = "JMP"
    /\ RegVal(regs, <<"a">>) = 1
    /\ RegVal(regs, <<"b">>) = 1

====
